---- MODULE Spec2Model ----
(***************************************************************************)
(* Model of nutanix.py: a single-pass script that loads a YAML config,     *)
(* queries the Nutanix API for clusters, hosts and VMs, folds resource     *)
(* fields into totals and logs a CRITICAL record for every total that      *)
(* exceeds its configured limit.                                           *)
(*                                                                         *)
(* Python integers are unbounded.  Byte counts are therefore carried as    *)
(* two limbs, [gib, rem] standing for gib * 2^30 + rem with rem < 2^30,    *)
(* so that totals of several GiB (and of several PiB, where the float      *)
(* division of lines 126/133/179 stops being exact) can be represented.    *)
(***************************************************************************)
EXTENDS Integers, Sequences, FiniteSets, TLC

(***************************************************************************)
(* Bounds of the model.                                                    *)
(***************************************************************************)
MaxHosts == 2
MaxVMs == 2
\* the largest memory size, in MiB, of the single VM of SpecVMMemory
MaxMiB == 6000

(***************************************************************************)
(* Numbers of the program.                                                 *)
(***************************************************************************)
\* 1024 * 1024 * 1024, the divisor of lines 126, 133 and 179
GiB == 1073741824
\* the divisor of line 172
MiBPerGB == 1000
\* binary64 has a 53-bit significand: every integer below 2^53 is a double,
\* which is 2^23 GiB
ExactGiB == 2^23

(***************************************************************************)
(* Unbounded byte counts: two limbs, radix 2^30.                           *)
(***************************************************************************)
Bytes(g, r) == [gib |-> g, rem |-> r]

ZeroBytes == Bytes(0, 0)

\* Python int + int: exact
BytesAdd(a, b) ==
  LET s == a.rem + b.rem
  IN  Bytes(a.gib + b.gib + (s \div GiB), s % GiB)

BytesLeq(a, b) == a.gib < b.gib \/ (a.gib = b.gib /\ a.rem <= b.rem)

(***************************************************************************)
(* int(total/1024/1024/1024) in Python 3.  total/1024 is a true division   *)
(* and yields the double nearest to the quotient; the two further          *)
(* divisions by 1024 are exact, so the value is RN(total) / 2^30, where RN *)
(* rounds to the nearest double, ties to the even significand.  int()      *)
(* truncates.  Doubles in [2^(52+j), 2^(53+j)) are the multiples of 2^j.   *)
(***************************************************************************)
RECURSIVE DoubleSpacing(_)
DoubleSpacing(g) == IF g < ExactGiB THEN 1 ELSE 2 * DoubleSpacing(g \div 2)

RoundToDouble(total) ==
  LET s    == DoubleSpacing(total.gib)
      down == (total.rem \div s) * s
      up   == down + s
      r    == IF total.rem - down < up - total.rem THEN down
              ELSE IF total.rem - down > up - total.rem THEN up
              ELSE IF (down \div s) % 2 = 0 THEN down ELSE up
  IN  IF r = GiB THEN Bytes(total.gib + 1, 0) ELSE Bytes(total.gib, r)

BytesToGB(total) == RoundToDouble(total).gib

\* variant: the binary divisor applied to the MiB total
MiBToGBBinary(m) == m \div 1024

\* int(total/1000) in Python 3: the correctly rounded quotient, truncated.
\* The quotient of two integers below 2^53 never rounds up to the next
\* integer while it is below 2^44, so for every m this model can hold
\* (m < 2^31) the result is the floor.
MiBToGB(m) == m \div MiBPerGB

(***************************************************************************)
(* The configuration file.                                                 *)
(***************************************************************************)
ConfigKeys ==
  << "cluster", "username", "password",
     "total_cpu_core_limit", "total_memory_usage_gb_limit",
     "total_storage_usage_gb_limit", "total_vms_num_sockets_limit",
     "total_vms_memory_size_gb_limit", "total_vms_disk_size_gb_limit" >>

ConfigKeySet == { ConfigKeys[i] : i \in 1..Len(ConfigKeys) }

Limits(cpu, mem, sto, sock, vmem, vdisk) ==
  [ total_cpu_core_limit           |-> cpu,
    total_memory_usage_gb_limit    |-> mem,
    total_storage_usage_gb_limit   |-> sto,
    total_vms_num_sockets_limit    |-> sock,
    total_vms_memory_size_gb_limit |-> vmem,
    total_vms_disk_size_gb_limit   |-> vdisk ]

LimitChoices ==
  { Limits(10, 1, ExactGiB, 3, 4, 2),
    Limits(11, 2, ExactGiB + 1, 4, 5, 3) }

NoLimits == Limits(0, 0, 0, 0, 0, 0)

\* the files --config can name: unreadable, lacking one required key, complete
ConfigFiles ==
  { [readable |-> FALSE, keys |-> {}, limits |-> NoLimits] }
  \cup { [readable |-> TRUE, keys |-> ConfigKeySet \ {k}, limits |-> NoLimits] :
           k \in ConfigKeySet }
  \cup { [readable |-> TRUE, keys |-> ConfigKeySet, limits |-> l] :
           l \in LimitChoices }

\* --config was not given
NoConfig == [given |-> FALSE]

(***************************************************************************)
(* What the API can answer.                                                *)
(***************************************************************************)
Host(cores, sto, mem) ==
  [ num_cpu_cores            |-> cores,
    storage_capacity_bytes   |-> sto,
    memory_capacity_in_bytes |-> mem ]

HostChoices ==
  { Host(5, Bytes(0, GiB - 1),    Bytes(1, 0)),
    Host(6, Bytes(ExactGiB, 0),   Bytes(1, 0)),
    Host(5, Bytes(ExactGiB, 0),   Bytes(0, GiB - 1)),
    Host(6, Bytes(0, GiB - 1),    Bytes(0, GiB - 1)) }

Sized(b) == [device_type |-> "DISK", disk_size_bytes |-> b]

\* a storage-container reference: no disk_size_bytes
Unsized == [device_type |-> "CONTAINER"]

VM(sockets, threads, vcpus, mib, disks) ==
  [ num_sockets          |-> sockets,
    num_threads_per_core |-> threads,
    num_vcpus_per_socket |-> vcpus,
    memory_size_mib      |-> mib,
    disk_list            |-> disks ]

VMChoices ==
  { VM(1, 1, 1, 2000, << >>),
    VM(1, 2, 1, 2000, << >>),
    VM(1, 1, 2, 2000, << >>),
    VM(2, 1, 1, 3000, << Sized(Bytes(2, 0)), Unsized >>),
    VM(2, 2, 2, 2500, << Unsized, Sized(Bytes(0, GiB - 1)), Sized(Bytes(0, 1)) >>),
    VM(1, 1, 1, 1999, << Sized(Bytes(1, 0)) >>) }

SeqsUpTo(S, n) == UNION { [1..k -> S] : k \in 0..n }

Entities(es) == [entities |-> es]

\* the JSON body of an error answer: no "entities"
ErrorBody == [message |-> "error"]

ClusterBodies == { Entities(<< "cluster-a" >>), Entities(<< "cluster-a", "cluster-b" >>) }
HostBodies    == { Entities(es) : es \in SeqsUpTo(HostChoices, MaxHosts) }
VMBodies      == { Entities(es) : es \in SeqsUpTo(VMChoices, MaxVMs) }

NoBody == [none |-> TRUE]

\* the answers to one request: no connection, a body that is not JSON (with
\* either status), an error status with a JSON error body, or success
Responses(bodies) ==
  { [connected |-> FALSE, status |-> 0, json |-> FALSE, body |-> NoBody] }
  \cup { [connected |-> TRUE, status |-> s, json |-> FALSE, body |-> NoBody] :
           s \in {200, 500} }
  \cup { [connected |-> TRUE, status |-> 500, json |-> TRUE, body |-> ErrorBody] }
  \cup { [connected |-> TRUE, status |-> 200, json |-> TRUE, body |-> b] :
           b \in bodies }

(***************************************************************************)
(* The state of one run.                                                   *)
(***************************************************************************)
VARIABLES
  pc,            \* position in __main__ (of the raise, once exc is set)
  args_config,   \* args.config: a file of ConfigFiles, or NoConfig
  nutanix,       \* _nutanix: the limits loaded by Nutanix.__init__
  http,          \* the requests issued so far, each with its answer
  clusters, hosts, vms,          \* the payloads returned by the three calls
  host_i, vm_i, disk_i,          \* positions of the three for loops
  total_hosts_cpu_cores,
  total_hosts_storage_usage_bytes,
  total_hosts_memory_capacity_bytes,
  total_hosts_memory_capacity_gbytes,
  total_hosts_storage_usage_gbytes,
  total_vms_threads_per_core,
  total_vms_vcpus_per_socket,
  total_vms_num_sockets,
  total_vms_memory_size_mib,
  total_vms_disk_size_bytes,
  total_vms_memory_size_gb,
  total_vms_disk_size_gb,
  log,           \* the records handed to logger.critical
  stdout,        \* what was printed
  exc            \* the uncaught exception that ended the run, or "None"

host_totals ==
  << total_hosts_cpu_cores, total_hosts_storage_usage_bytes,
     total_hosts_memory_capacity_bytes >>

host_gbytes ==
  << total_hosts_memory_capacity_gbytes, total_hosts_storage_usage_gbytes >>

vm_totals ==
  << total_vms_threads_per_core, total_vms_vcpus_per_socket,
     total_vms_num_sockets, total_vms_memory_size_mib,
     total_vms_disk_size_bytes >>

vm_gbytes == << total_vms_memory_size_gb, total_vms_disk_size_gb >>

payloads == << clusters, hosts, vms >>

loops == << host_i, vm_i, disk_i >>

vars ==
  << pc, args_config, nutanix, http, payloads, loops, host_totals,
     host_gbytes, vm_totals, vm_gbytes, log, stdout, exc >>

Init ==
  /\ pc = "main"
  /\ args_config \in {NoConfig} \cup ConfigFiles
  /\ nutanix = NoLimits
  /\ http = << >>
  /\ clusters = NoBody /\ hosts = NoBody /\ vms = NoBody
  /\ host_i = 0 /\ vm_i = 0 /\ disk_i = 0
  /\ total_hosts_cpu_cores = 0
  /\ total_hosts_storage_usage_bytes = ZeroBytes
  /\ total_hosts_memory_capacity_bytes = ZeroBytes
  /\ total_hosts_memory_capacity_gbytes = 0
  /\ total_hosts_storage_usage_gbytes = 0
  /\ total_vms_threads_per_core = 0
  /\ total_vms_vcpus_per_socket = 0
  /\ total_vms_num_sockets = 0
  /\ total_vms_memory_size_mib = 0
  /\ total_vms_disk_size_bytes = ZeroBytes
  /\ total_vms_memory_size_gb = 0
  /\ total_vms_disk_size_gb = 0
  /\ log = << >>
  /\ stdout = << >>
  /\ exc = "None"

\* the run is at statement l and has not been ended by an exception
At(l) == pc = l /\ exc = "None"

\* an exception nobody catches ends the run where it is raised
Raise(e) == exc' = e /\ UNCHANGED pc

(***************************************************************************)
(* if not args.config: parser.print_help()                                 *)
(***************************************************************************)
PrintHelp ==
  /\ At("main")
  /\ args_config = NoConfig
  /\ stdout' = Append(stdout, "help")
  /\ pc' = "exit"
  /\ UNCHANGED << args_config, nutanix, http, payloads, loops, host_totals,
                  host_gbytes, vm_totals, vm_gbytes, log, exc >>

\* variant: absent keys read with a default (cfg.get) instead of raising
NutanixInitLenient ==
  /\ At("main")
  /\ args_config # NoConfig
  /\ IF ~args_config.readable
       THEN Raise("FileNotFoundError") /\ UNCHANGED nutanix
       ELSE /\ nutanix' = args_config.limits
            /\ pc' = "get_clusters"
            /\ UNCHANGED exc
  /\ UNCHANGED << args_config, http, payloads, loops, host_totals,
                  host_gbytes, vm_totals, vm_gbytes, log, stdout >>

(***************************************************************************)
(* _nutanix = Nutanix(config=args.config): open() raises on a file that    *)
(* cannot be read, cfg[...] raises KeyError on the first absent key.       *)
(***************************************************************************)
NutanixInit ==
  /\ At("main")
  /\ args_config # NoConfig
  /\ IF ~args_config.readable
       THEN Raise("FileNotFoundError") /\ UNCHANGED nutanix
       ELSE IF \E i \in 1..Len(ConfigKeys) : ConfigKeys[i] \notin args_config.keys
         THEN Raise("KeyError") /\ UNCHANGED nutanix
         ELSE /\ nutanix' = args_config.limits
              /\ pc' = "get_clusters"
              /\ UNCHANGED exc
  /\ UNCHANGED << args_config, http, payloads, loops, host_totals,
                  host_gbytes, vm_totals, vm_gbytes, log, stdout >>

(***************************************************************************)
(* Nutanix.get / Nutanix.post_v3: one request; requests raises when there  *)
(* is no connection, r.json() raises when the body is not JSON.  The       *)
(* status of the answer is not looked at.                                  *)
(***************************************************************************)
CallRaises(resp) == ~resp.connected \/ ~resp.json

CallException(resp) ==
  IF ~resp.connected THEN "ConnectionError" ELSE "JSONDecodeError"

Exchange(method, path, resp) == [method |-> method, path |-> path, resp |-> resp]

GetClusters ==
  /\ At("get_clusters")
  /\ \E resp \in Responses(ClusterBodies) :
       /\ http' = Append(http, Exchange("GET", "clusters", resp))
       /\ IF CallRaises(resp)
            THEN Raise(CallException(resp)) /\ UNCHANGED clusters
            ELSE clusters' = resp.body /\ pc' = "get_hosts" /\ UNCHANGED exc
  /\ UNCHANGED << args_config, nutanix, hosts, vms, loops, host_totals,
                  host_gbytes, vm_totals, vm_gbytes, log, stdout >>

\* variant: get_hosts asks for 'clusters' again
GetHostsWrongPath ==
  /\ At("get_hosts")
  /\ \E resp \in Responses(HostBodies) :
       /\ http' = Append(http, Exchange("GET", "clusters", resp))
       /\ IF CallRaises(resp)
            THEN /\ Raise(CallException(resp))
                 /\ UNCHANGED << hosts, host_i, host_totals >>
            ELSE /\ hosts' = resp.body
                 /\ total_hosts_cpu_cores' = 0
                 /\ total_hosts_storage_usage_bytes' = ZeroBytes
                 /\ total_hosts_memory_capacity_bytes' = ZeroBytes
                 /\ host_i' = 1
                 /\ pc' = "host_loop"
                 /\ UNCHANGED exc
  /\ UNCHANGED << args_config, nutanix, clusters, vms, vm_i, disk_i,
                  host_gbytes, vm_totals, vm_gbytes, log, stdout >>

\* hosts = _nutanix.get_hosts(), then the counters of lines 107-111
GetHosts ==
  /\ At("get_hosts")
  /\ \E resp \in Responses(HostBodies) :
       /\ http' = Append(http, Exchange("GET", "hosts", resp))
       /\ IF CallRaises(resp)
            THEN /\ Raise(CallException(resp))
                 /\ UNCHANGED << hosts, host_i, host_totals >>
            ELSE /\ hosts' = resp.body
                 /\ total_hosts_cpu_cores' = 0
                 /\ total_hosts_storage_usage_bytes' = ZeroBytes
                 /\ total_hosts_memory_capacity_bytes' = ZeroBytes
                 /\ host_i' = 1
                 /\ pc' = "host_loop"
                 /\ UNCHANGED exc
  /\ UNCHANGED << args_config, nutanix, clusters, vms, vm_i, disk_i,
                  host_gbytes, vm_totals, vm_gbytes, log, stdout >>

\* variant: the core count assigned (=) instead of added (+=)
HostLoopAssign ==
  /\ At("host_loop")
  /\ IF "entities" \notin DOMAIN hosts
       THEN Raise("KeyError") /\ UNCHANGED << host_i, host_totals >>
       ELSE IF host_i <= Len(hosts.entities)
         THEN LET host == hosts.entities[host_i]
              IN  /\ total_hosts_cpu_cores' = host.num_cpu_cores
                  /\ total_hosts_storage_usage_bytes' =
                       BytesAdd(total_hosts_storage_usage_bytes,
                                host.storage_capacity_bytes)
                  /\ total_hosts_memory_capacity_bytes' =
                       BytesAdd(total_hosts_memory_capacity_bytes,
                                host.memory_capacity_in_bytes)
                  /\ host_i' = host_i + 1
                  /\ UNCHANGED << pc, exc >>
         ELSE /\ pc' = "check_hosts_cpu"
              /\ UNCHANGED << host_i, host_totals, exc >>
  /\ UNCHANGED << args_config, nutanix, http, payloads, vm_i, disk_i,
                  host_gbytes, vm_totals, vm_gbytes, log, stdout >>

(***************************************************************************)
(* for host in hosts['entities']: one iteration per step.  A payload       *)
(* without "entities" raises KeyError.                                     *)
(***************************************************************************)
HostLoop ==
  /\ At("host_loop")
  /\ IF "entities" \notin DOMAIN hosts
       THEN Raise("KeyError") /\ UNCHANGED << host_i, host_totals >>
       ELSE IF host_i <= Len(hosts.entities)
         THEN LET host == hosts.entities[host_i]
              IN  /\ total_hosts_cpu_cores' =
                       total_hosts_cpu_cores + host.num_cpu_cores
                  /\ total_hosts_storage_usage_bytes' =
                       BytesAdd(total_hosts_storage_usage_bytes,
                                host.storage_capacity_bytes)
                  /\ total_hosts_memory_capacity_bytes' =
                       BytesAdd(total_hosts_memory_capacity_bytes,
                                host.memory_capacity_in_bytes)
                  /\ host_i' = host_i + 1
                  /\ UNCHANGED << pc, exc >>
         ELSE /\ pc' = "check_hosts_cpu"
              /\ UNCHANGED << host_i, host_totals, exc >>
  /\ UNCHANGED << args_config, nutanix, http, payloads, vm_i, disk_i,
                  host_gbytes, vm_totals, vm_gbytes, log, stdout >>

(***************************************************************************)
(* A threshold check: logger.critical when the total exceeds the limit.    *)
(***************************************************************************)
Critical(metric, total, limit) ==
  [level |-> "CRITICAL", metric |-> metric, total |-> total, limit |-> limit]

\* variant: the comparison not strict
BreachOrEqual(total, limit) == total >= limit

Breach(total, limit) == total > limit

Check(metric, total, limit) ==
  log' = IF Breach(total, limit)
           THEN Append(log, Critical(metric, total, limit))
           ELSE log

CheckHostsCpu ==
  /\ At("check_hosts_cpu")
  /\ Check("hosts_cpu_cores", total_hosts_cpu_cores,
           nutanix.total_cpu_core_limit)
  /\ pc' = "check_hosts_memory"
  /\ UNCHANGED << args_config, nutanix, http, payloads, loops, host_totals,
                  host_gbytes, vm_totals, vm_gbytes, stdout, exc >>

CheckHostsMemory ==
  /\ At("check_hosts_memory")
  /\ total_hosts_memory_capacity_gbytes' =
       BytesToGB(total_hosts_memory_capacity_bytes)
  /\ Check("hosts_memory_gb", total_hosts_memory_capacity_gbytes',
           nutanix.total_memory_usage_gb_limit)
  /\ pc' = "check_hosts_storage"
  /\ UNCHANGED << args_config, nutanix, http, payloads, loops, host_totals,
                  total_hosts_storage_usage_gbytes, vm_totals, vm_gbytes,
                  stdout, exc >>

CheckHostsStorage ==
  /\ At("check_hosts_storage")
  /\ total_hosts_storage_usage_gbytes' =
       BytesToGB(total_hosts_storage_usage_bytes)
  /\ Check("hosts_storage_gb", total_hosts_storage_usage_gbytes',
           nutanix.total_storage_usage_gb_limit)
  /\ pc' = "get_vms"
  /\ UNCHANGED << args_config, nutanix, http, payloads, loops, host_totals,
                  total_hosts_memory_capacity_gbytes, vm_totals, vm_gbytes,
                  stdout, exc >>

\* vms = _nutanix.get_vms(), then the counters of lines 146-150
GetVMs ==
  /\ At("get_vms")
  /\ \E resp \in Responses(VMBodies) :
       /\ http' = Append(http, Exchange("POST", "vms/list", resp))
       /\ IF CallRaises(resp)
            THEN /\ Raise(CallException(resp))
                 /\ UNCHANGED << vms, vm_i, vm_totals >>
            ELSE /\ vms' = resp.body
                 /\ total_vms_threads_per_core' = 0
                 /\ total_vms_vcpus_per_socket' = 0
                 /\ total_vms_num_sockets' = 0
                 /\ total_vms_memory_size_mib' = 0
                 /\ total_vms_disk_size_bytes' = ZeroBytes
                 /\ vm_i' = 1
                 /\ pc' = "vm_loop"
                 /\ UNCHANGED exc
  /\ UNCHANGED << args_config, nutanix, clusters, hosts, host_i, disk_i,
                  host_totals, host_gbytes, vm_gbytes, log, stdout >>

(***************************************************************************)
(* for vm in vms['entities']: the four sums of one VM, then its disks.     *)
(***************************************************************************)
VMLoop ==
  /\ At("vm_loop")
  /\ IF "entities" \notin DOMAIN vms
       THEN /\ Raise("KeyError")
            /\ UNCHANGED << vm_i, disk_i, vm_totals >>
       ELSE IF vm_i <= Len(vms.entities)
         THEN LET vm == vms.entities[vm_i]
              IN  /\ total_vms_threads_per_core' =
                       total_vms_threads_per_core + vm.num_threads_per_core
                  /\ total_vms_vcpus_per_socket' =
                       total_vms_vcpus_per_socket + vm.num_vcpus_per_socket
                  /\ total_vms_num_sockets' =
                       total_vms_num_sockets + vm.num_sockets
                  /\ total_vms_memory_size_mib' =
                       total_vms_memory_size_mib + vm.memory_size_mib
                  /\ disk_i' = 1
                  /\ pc' = "disk_loop"
                  /\ UNCHANGED << vm_i, total_vms_disk_size_bytes, exc >>
         ELSE /\ pc' = "check_vms_sockets"
              /\ UNCHANGED << vm_i, disk_i, vm_totals, exc >>
  /\ UNCHANGED << args_config, nutanix, http, payloads, host_i, host_totals,
                  host_gbytes, vm_gbytes, log, stdout >>

\* variant: a disk without a size ends the loop over the disks of its VM
DiskLoopBreak ==
  /\ At("disk_loop")
  /\ LET disks == vms.entities[vm_i].disk_list
     IN  IF disk_i <= Len(disks) /\ "disk_size_bytes" \in DOMAIN disks[disk_i]
           THEN /\ total_vms_disk_size_bytes' =
                     BytesAdd(total_vms_disk_size_bytes,
                              disks[disk_i].disk_size_bytes)
                /\ disk_i' = disk_i + 1
                /\ UNCHANGED << pc, vm_i >>
           ELSE /\ vm_i' = vm_i + 1
                /\ pc' = "vm_loop"
                /\ UNCHANGED << disk_i, total_vms_disk_size_bytes >>
  /\ UNCHANGED << args_config, nutanix, http, payloads, host_i, host_totals,
                  host_gbytes, total_vms_threads_per_core,
                  total_vms_vcpus_per_socket, total_vms_num_sockets,
                  total_vms_memory_size_mib, vm_gbytes, log, stdout, exc >>

(***************************************************************************)
(* for disk in vm[...]['disk_list']: try: total += disk['disk_size_bytes'] *)
(* except: pass.  A disk without the key raises KeyError inside the try,   *)
(* which the bare except swallows.                                         *)
(***************************************************************************)
DiskLoop ==
  /\ At("disk_loop")
  /\ LET disks == vms.entities[vm_i].disk_list
     IN  IF disk_i <= Len(disks)
           THEN /\ total_vms_disk_size_bytes' =
                     IF "disk_size_bytes" \in DOMAIN disks[disk_i]
                       THEN BytesAdd(total_vms_disk_size_bytes,
                                     disks[disk_i].disk_size_bytes)
                       ELSE total_vms_disk_size_bytes
                /\ disk_i' = disk_i + 1
                /\ UNCHANGED << pc, vm_i >>
           ELSE /\ vm_i' = vm_i + 1
                /\ pc' = "vm_loop"
                /\ UNCHANGED << disk_i, total_vms_disk_size_bytes >>
  /\ UNCHANGED << args_config, nutanix, http, payloads, host_i, host_totals,
                  host_gbytes, total_vms_threads_per_core,
                  total_vms_vcpus_per_socket, total_vms_num_sockets,
                  total_vms_memory_size_mib, vm_gbytes, log, stdout, exc >>

\* variant: the vCPUs-per-socket total compared with the socket limit
CheckVMsSocketsVcpus ==
  /\ At("check_vms_sockets")
  /\ Check("vms_num_sockets", total_vms_vcpus_per_socket,
           nutanix.total_vms_num_sockets_limit)
  /\ pc' = "check_vms_memory"
  /\ UNCHANGED << args_config, nutanix, http, payloads, loops, host_totals,
                  host_gbytes, vm_totals, vm_gbytes, stdout, exc >>

CheckVMsSockets ==
  /\ At("check_vms_sockets")
  /\ Check("vms_num_sockets", total_vms_num_sockets,
           nutanix.total_vms_num_sockets_limit)
  /\ pc' = "check_vms_memory"
  /\ UNCHANGED << args_config, nutanix, http, payloads, loops, host_totals,
                  host_gbytes, vm_totals, vm_gbytes, stdout, exc >>

CheckVMsMemory ==
  /\ At("check_vms_memory")
  /\ total_vms_memory_size_gb' = MiBToGB(total_vms_memory_size_mib)
  /\ Check("vms_memory_gb", total_vms_memory_size_gb',
           nutanix.total_vms_memory_size_gb_limit)
  /\ pc' = "check_vms_disk"
  /\ UNCHANGED << args_config, nutanix, http, payloads, loops, host_totals,
                  host_gbytes, vm_totals, total_vms_disk_size_gb, stdout,
                  exc >>

CheckVMsDisk ==
  /\ At("check_vms_disk")
  /\ total_vms_disk_size_gb' = BytesToGB(total_vms_disk_size_bytes)
  /\ Check("vms_disk_gb", total_vms_disk_size_gb',
           nutanix.total_vms_disk_size_gb_limit)
  /\ pc' = "raw_data"
  /\ UNCHANGED << args_config, nutanix, http, payloads, loops, host_totals,
                  host_gbytes, vm_totals, total_vms_memory_size_gb, stdout,
                  exc >>

\* print('\n-- Raw data below --')
PrintRawData ==
  /\ At("raw_data")
  /\ stdout' = Append(stdout, "-- Raw data below --")
  /\ pc' = "exit"
  /\ UNCHANGED << args_config, nutanix, http, payloads, loops, host_totals,
                  host_gbytes, vm_totals, vm_gbytes, log, exc >>

Next ==
  \/ PrintHelp
  \/ NutanixInit
  \/ GetClusters
  \/ GetHosts
  \/ HostLoop
  \/ CheckHostsCpu
  \/ CheckHostsMemory
  \/ CheckHostsStorage
  \/ GetVMs
  \/ VMLoop
  \/ DiskLoop
  \/ CheckVMsSockets
  \/ CheckVMsMemory
  \/ CheckVMsDisk
  \/ PrintRawData

Spec == Init /\ [][Next]_vars

(***************************************************************************)
(* The run at the VM memory check (line 171), after the API has answered   *)
(* no host and one VM of any memory size up to MaxMiB: the state lines     *)
(* 85-169 leave for such answers.  From there the run goes on as in Spec.  *)
(***************************************************************************)
Ok(b) == [connected |-> TRUE, status |-> 200, json |-> TRUE, body |-> b]

VMMemoryInit ==
  \E l \in LimitChoices, m \in 0..MaxMiB :
    LET c == Entities(<< "cluster-a" >>)
        h == Entities(<< >>)
        v == Entities(<< VM(1, 1, 1, m, << >>) >>)
    IN  /\ pc = "check_vms_memory"
        /\ args_config = [readable |-> TRUE, keys |-> ConfigKeySet, limits |-> l]
        /\ nutanix = l
        /\ http = << Exchange("GET", "clusters", Ok(c)),
                     Exchange("GET", "hosts", Ok(h)),
                     Exchange("POST", "vms/list", Ok(v)) >>
        /\ clusters = c /\ hosts = h /\ vms = v
        /\ host_i = 1 /\ vm_i = 2 /\ disk_i = 1
        /\ total_hosts_cpu_cores = 0
        /\ total_hosts_storage_usage_bytes = ZeroBytes
        /\ total_hosts_memory_capacity_bytes = ZeroBytes
        /\ total_hosts_memory_capacity_gbytes = 0
        /\ total_hosts_storage_usage_gbytes = 0
        /\ total_vms_threads_per_core = 1
        /\ total_vms_vcpus_per_socket = 1
        /\ total_vms_num_sockets = 1
        /\ total_vms_memory_size_mib = m
        /\ total_vms_disk_size_bytes = ZeroBytes
        /\ total_vms_memory_size_gb = 0
        /\ total_vms_disk_size_gb = 0
        /\ log = << >>
        /\ stdout = << >>
        /\ exc = "None"

VMMemoryNext == CheckVMsMemory \/ CheckVMsDisk \/ PrintRawData

SpecVMMemory == VMMemoryInit /\ [][VMMemoryNext]_vars

(***************************************************************************)
(* Helpers of the properties.                                              *)
(***************************************************************************)
ProgramOrder ==
  << "main", "get_clusters", "get_hosts", "host_loop", "check_hosts_cpu",
     "check_hosts_memory", "check_hosts_storage", "get_vms", "vm_loop",
     "disk_loop", "check_vms_sockets", "check_vms_memory", "check_vms_disk",
     "raw_data", "exit" >>

Rank(l) == CHOOSE i \in 1..Len(ProgramOrder) : ProgramOrder[i] = l

\* the statement at l has been executed (disk_loop jumps back to vm_loop,
\* which is before every check)
Past(l) == Rank(pc) > Rank(l) /\ args_config # NoConfig

Metrics ==
  { "hosts_cpu_cores", "hosts_memory_gb", "hosts_storage_gb",
    "vms_num_sockets", "vms_memory_gb", "vms_disk_gb" }

HostMetrics == { "hosts_cpu_cores", "hosts_memory_gb", "hosts_storage_gb" }

\* where each metric is checked, the value that is compared, and its limit
CheckOf(m) ==
  CASE m = "hosts_cpu_cores"  -> "check_hosts_cpu"
    [] m = "hosts_memory_gb"  -> "check_hosts_memory"
    [] m = "hosts_storage_gb" -> "check_hosts_storage"
    [] m = "vms_num_sockets"  -> "check_vms_sockets"
    [] m = "vms_memory_gb"    -> "check_vms_memory"
    [] m = "vms_disk_gb"      -> "check_vms_disk"

Compared(m) ==
  CASE m = "hosts_cpu_cores"  -> total_hosts_cpu_cores
    [] m = "hosts_memory_gb"  -> total_hosts_memory_capacity_gbytes
    [] m = "hosts_storage_gb" -> total_hosts_storage_usage_gbytes
    [] m = "vms_num_sockets"  -> total_vms_num_sockets
    [] m = "vms_memory_gb"    -> total_vms_memory_size_gb
    [] m = "vms_disk_gb"      -> total_vms_disk_size_gb

LimitOf(m) ==
  CASE m = "hosts_cpu_cores"  -> nutanix.total_cpu_core_limit
    [] m = "hosts_memory_gb"  -> nutanix.total_memory_usage_gb_limit
    [] m = "hosts_storage_gb" -> nutanix.total_storage_usage_gb_limit
    [] m = "vms_num_sockets"  -> nutanix.total_vms_num_sockets_limit
    [] m = "vms_memory_gb"    -> nutanix.total_vms_memory_size_gb_limit
    [] m = "vms_disk_gb"      -> nutanix.total_vms_disk_size_gb_limit

RecordsOf(m) == { i \in 1..Len(log) : log[i].metric = m }

(***************************************************************************)
(* C1.  A metric whose check has been reached has exactly one CRITICAL     *)
(* record, carrying the compared total and the limit, when the total is    *)
(* strictly greater than the limit, and no record otherwise (in            *)
(* particular none when total = limit); a metric whose check has not been  *)
(* reached has no record.                                                  *)
(***************************************************************************)
C1_StrictBreach ==
  \A m \in Metrics :
    IF Past(CheckOf(m)) /\ Compared(m) > LimitOf(m)
      THEN /\ Cardinality(RecordsOf(m)) = 1
           /\ \A i \in RecordsOf(m) :
                log[i] = [level |-> "CRITICAL", metric |-> m,
                          total |-> Compared(m), limit |-> LimitOf(m)]
      ELSE RecordsOf(m) = {}

\* a finished run with cores = limit + 1 (one record) and sockets = limit
\* (no record)
C1_Witness ==
  /\ At("exit") /\ args_config # NoConfig
  /\ total_hosts_cpu_cores = nutanix.total_cpu_core_limit + 1
  /\ Cardinality(RecordsOf("hosts_cpu_cores")) = 1
  /\ total_vms_num_sockets = nutanix.total_vms_num_sockets_limit
  /\ RecordsOf("vms_num_sockets") = {}

(***************************************************************************)
(* C4.  No request is issued before the configuration is loaded: without   *)
(* --config the run prints help and issues none; with a file that is       *)
(* unreadable or lacks a required key the run never leaves the             *)
(* construction of Nutanix and issues none; whenever a request has been    *)
(* issued the file was complete and its limits are loaded.                 *)
(***************************************************************************)
CompleteConfig ==
  /\ args_config # NoConfig
  /\ args_config.readable
  /\ args_config.keys = ConfigKeySet

C4_NoCallBeforeConfig ==
  /\ args_config = NoConfig =>
       /\ http = << >> /\ exc = "None"
       /\ pc \in {"main", "exit"}
       /\ pc = "exit" => stdout = << "help" >>
  /\ (args_config # NoConfig /\ ~CompleteConfig) =>
       /\ http = << >> /\ pc = "main"
       /\ exc = "None" => ENABLED NutanixInit
  /\ http # << >> => CompleteConfig /\ nutanix = args_config.limits

\* the run failed on a readable file that lacks one of the six limits
C4_Witness ==
  /\ args_config # NoConfig
  /\ args_config.readable
  /\ "total_vms_disk_size_gb_limit" \notin args_config.keys
  /\ exc = "KeyError"
  /\ http = << >>

(***************************************************************************)
(* C5.  At every point of the VM fold the disk accumulator is the sum of   *)
(* disk_size_bytes over the disks folded so far that carry the field; a    *)
(* disk without it changes nothing, raises nothing, and the disks and VMs  *)
(* after it are still folded in.                                           *)
(***************************************************************************)
RECURSIVE SizedSum(_, _)
\* the sum of the sizes of the first n disks of the list that have one
SizedSum(disks, n) ==
  IF n = 0 THEN ZeroBytes
  ELSE LET rest == SizedSum(disks, n - 1)
       IN  IF "disk_size_bytes" \in DOMAIN disks[n]
             THEN BytesAdd(rest, disks[n].disk_size_bytes)
             ELSE rest

RECURSIVE FleetSizedSum(_, _)
\* the same over all disks of the first n VMs
FleetSizedSum(es, n) ==
  IF n = 0 THEN ZeroBytes
  ELSE BytesAdd(FleetSizedSum(es, n - 1),
                SizedSum(es[n].disk_list, Len(es[n].disk_list)))

C5_SkipUnsized ==
  /\ (pc = "vm_loop" /\ "entities" \in DOMAIN vms) =>
       total_vms_disk_size_bytes = FleetSizedSum(vms.entities, vm_i - 1)
  /\ pc = "disk_loop" =>
       /\ exc = "None"
       /\ total_vms_disk_size_bytes =
            BytesAdd(FleetSizedSum(vms.entities, vm_i - 1),
                     SizedSum(vms.entities[vm_i].disk_list, disk_i - 1))
  /\ Past("disk_loop") =>
       /\ exc = "None"
       /\ total_vms_disk_size_bytes =
            FleetSizedSum(vms.entities, Len(vms.entities))

\* a finished run over a VM whose first disk has no size and whose later
\* disks have one
C5_Witness ==
  /\ At("exit") /\ args_config # NoConfig
  /\ \E n \in 1..Len(vms.entities) :
       LET disks == vms.entities[n].disk_list
       IN  /\ Len(disks) >= 2
           /\ "disk_size_bytes" \notin DOMAIN disks[1]
           /\ "disk_size_bytes" \in DOMAIN disks[2]
  /\ total_vms_disk_size_bytes # ZeroBytes

(***************************************************************************)
(* C7.  Once the VM memory check has run, the value compared with the      *)
(* limit is the MiB total divided by 1000 and truncated: 1000 * gb <= mib  *)
(* < 1000 * (gb + 1); 5000 MiB gives 5, which a division by 1024 would     *)
(* make 4.                                                                 *)
(***************************************************************************)
C7_DecimalGB ==
  Past("check_vms_memory") =>
    /\ 1000 * total_vms_memory_size_gb <= total_vms_memory_size_mib
    /\ total_vms_memory_size_mib < 1000 * (total_vms_memory_size_gb + 1)
    /\ total_vms_memory_size_mib = 5000 => total_vms_memory_size_gb = 5
    /\ Cardinality(RecordsOf("vms_memory_gb")) =
         IF total_vms_memory_size_mib >=
              1000 * (nutanix.total_vms_memory_size_gb_limit + 1)
           THEN 1 ELSE 0

C7_Witness ==
  /\ Past("check_vms_memory")
  /\ total_vms_memory_size_mib = 5000
  /\ total_vms_memory_size_gb = 5
  /\ nutanix.total_vms_memory_size_gb_limit = 4
  /\ RecordsOf("vms_memory_gb") # {}

(***************************************************************************)
(* C9.  The eight running totals start at zero and no step of a run ever   *)
(* lowers one of them: after folding a record each total is at least what  *)
(* it was before.                                                          *)
(***************************************************************************)
HostTotalsZero ==
  /\ total_hosts_cpu_cores = 0
  /\ total_hosts_storage_usage_bytes = ZeroBytes
  /\ total_hosts_memory_capacity_bytes = ZeroBytes

VMTotalsZero ==
  /\ total_vms_threads_per_core = 0
  /\ total_vms_vcpus_per_socket = 0
  /\ total_vms_num_sockets = 0
  /\ total_vms_memory_size_mib = 0
  /\ total_vms_disk_size_bytes = ZeroBytes

TotalsGrow ==
  /\ total_hosts_cpu_cores' >= total_hosts_cpu_cores
  /\ BytesLeq(total_hosts_storage_usage_bytes,
              total_hosts_storage_usage_bytes')
  /\ BytesLeq(total_hosts_memory_capacity_bytes,
              total_hosts_memory_capacity_bytes')
  /\ total_vms_threads_per_core' >= total_vms_threads_per_core
  /\ total_vms_vcpus_per_socket' >= total_vms_vcpus_per_socket
  /\ total_vms_num_sockets' >= total_vms_num_sockets
  /\ total_vms_memory_size_mib' >= total_vms_memory_size_mib
  /\ BytesLeq(total_vms_disk_size_bytes, total_vms_disk_size_bytes')

\* the folds start from zero (the steps into the two loops), and every step
\* leaves each total at least as large as it was
C9_Monotone ==
  [][ /\ TotalsGrow
      /\ (pc = "get_hosts" /\ pc' = "host_loop") => HostTotalsZero'
      /\ (pc = "get_vms" /\ pc' = "vm_loop") => VMTotalsZero' ]_vars

\* two hosts and two VMs have been folded in and every total has moved
C9_Witness ==
  /\ At("exit") /\ args_config # NoConfig
  /\ Len(hosts.entities) = 2 /\ Len(vms.entities) = 2
  /\ total_hosts_cpu_cores = 11
  /\ total_hosts_storage_usage_bytes # ZeroBytes
  /\ total_hosts_memory_capacity_bytes # ZeroBytes
  /\ total_vms_threads_per_core > 2
  /\ total_vms_vcpus_per_socket > 2
  /\ total_vms_num_sockets > 2
  /\ total_vms_memory_size_mib > 0
  /\ total_vms_disk_size_bytes # ZeroBytes

(***************************************************************************)
(* Failures of a request, as the failure policy names them: no connection, *)
(* an HTTP error status, a body that is not JSON.                          *)
(***************************************************************************)
Failed(resp) == ~resp.connected \/ resp.status # 200 \/ ~resp.json

Paths == { http[i].path : i \in 1..Len(http) }

\* the payload variable the call for a path assigns
PayloadOf(path) ==
  CASE path = "clusters" -> clusters
    [] path = "hosts"    -> hosts
    [] path = "vms/list" -> vms

CallOrder == << "clusters", "hosts", "vms/list" >>

(***************************************************************************)
(* C2 (as claimed).  In a run where one of the three fetches has failed,   *)
(* the run is aborted and no breach record of any metric has been emitted. *)
(***************************************************************************)
C2_NoPartialReport ==
  (\E i \in 1..Len(http) : Failed(http[i].resp)) =>
    /\ log = << >>
    /\ exc # "None"

(***************************************************************************)
(* C3 (as claimed).  A call whose answer is a network failure, an HTTP     *)
(* error status or a body that is not JSON raises: nothing is returned to  *)
(* the aggregation step, the run is ended by the exception, and no         *)
(* endpoint is requested twice.                                            *)
(***************************************************************************)
C3_FailFast ==
  /\ \A i \in 1..Len(http) :
       Failed(http[i].resp) =>
         /\ PayloadOf(http[i].path) = NoBody
         /\ exc # "None"
  /\ Cardinality(Paths) = Len(http)

(***************************************************************************)
(* C6 (as claimed).  Once a byte total has been converted, the GB value    *)
(* compared with the limit is floor(total / 1024^3), which for a total     *)
(* held as gib * 2^30 + rem is gib.                                        *)
(***************************************************************************)
C6_BinaryGB ==
  /\ Past("check_hosts_memory") =>
       total_hosts_memory_capacity_gbytes =
         total_hosts_memory_capacity_bytes.gib
  /\ Past("check_hosts_storage") =>
       total_hosts_storage_usage_gbytes = total_hosts_storage_usage_bytes.gib
  /\ Past("check_vms_disk") =>
       total_vms_disk_size_gb = total_vms_disk_size_bytes.gib

(***************************************************************************)
(* C8 (as claimed).  No accumulator is updated and no breach record is     *)
(* emitted before the VM list call has returned.                           *)
(***************************************************************************)
VMsReturned ==
  \E i \in 1..Len(http) :
    http[i].path = "vms/list" /\ ~CallRaises(http[i].resp)

HostsReturned ==
  \E i \in 1..Len(http) :
    http[i].path = "hosts" /\ ~CallRaises(http[i].resp)

HostsView(es) ==
  [ i \in 1..Len(es) |->
      [ cores   |-> es[i].num_cpu_cores,
        storage |-> es[i].storage_capacity_bytes,
        memory  |-> es[i].memory_capacity_in_bytes ] ]

RECURSIVE DiskSizes(_)
DiskSizes(disks) ==
  IF disks = << >> THEN << >>
  ELSE IF "disk_size_bytes" \in DOMAIN Head(disks)
    THEN << Head(disks).disk_size_bytes >> \o DiskSizes(Tail(disks))
    ELSE DiskSizes(Tail(disks))

VMsView(es) ==
  [ i \in 1..Len(es) |->
      [ sockets |-> es[i].num_sockets,
        mib     |-> es[i].memory_size_mib,
        sizes   |-> DiskSizes(es[i].disk_list) ] ]

RECURSIVE IntSum(_)
IntSum(q) == IF q = << >> THEN 0 ELSE Head(q) + IntSum(Tail(q))

RECURSIVE ByteSum(_)
ByteSum(q) == IF q = << >> THEN ZeroBytes ELSE BytesAdd(Head(q), ByteSum(Tail(q)))

Exceeding(records) == SelectSeq(records, LAMBDA r : r.total > r.limit)

ExpectedHostRecords(limits, view) ==
  Exceeding(
    << Critical("hosts_cpu_cores",
                IntSum([i \in 1..Len(view) |-> view[i].cores]),
                limits.total_cpu_core_limit),
       Critical("hosts_memory_gb",
                BytesToGB(ByteSum([i \in 1..Len(view) |-> view[i].memory])),
                limits.total_memory_usage_gb_limit),
       Critical("hosts_storage_gb",
                BytesToGB(ByteSum([i \in 1..Len(view) |-> view[i].storage])),
                limits.total_storage_usage_gb_limit) >>)

ExpectedVMRecords(limits, view) ==
  Exceeding(
    << Critical("vms_num_sockets",
                IntSum([i \in 1..Len(view) |-> view[i].sockets]),
                limits.total_vms_num_sockets_limit),
       Critical("vms_memory_gb",
                MiBToGB(IntSum([i \in 1..Len(view) |-> view[i].mib])),
                limits.total_vms_memory_size_gb_limit),
       Critical("vms_disk_gb",
                BytesToGB(ByteSum([i \in 1..Len(view) |->
                                     ByteSum(view[i].sizes)])),
                limits.total_vms_disk_size_gb_limit) >>)

C10_DependsOnlyOnViews ==
  /\ Past("check_hosts_storage") =>
       SelectSeq(log, LAMBDA r : r.metric \in HostMetrics) =
         ExpectedHostRecords(nutanix, HostsView(hosts.entities))
  /\ (At("exit") /\ args_config # NoConfig) =>
       log = ExpectedHostRecords(nutanix, HostsView(hosts.entities))
             \o ExpectedVMRecords(nutanix, VMsView(vms.entities))

\* a finished run with the larger clusters payload, a VM with two threads
\* per core, one with two vCPUs per socket, and records of both sides
C10_Witness ==
  /\ At("exit") /\ args_config # NoConfig
  /\ clusters = Entities(<< "cluster-a", "cluster-b" >>)
  /\ \E i \in 1..Len(vms.entities) : vms.entities[i].num_threads_per_core = 2
  /\ \E i \in 1..Len(vms.entities) : vms.entities[i].num_vcpus_per_socket = 2
  /\ \E m \in HostMetrics : RecordsOf(m) # {}
  /\ \E m \in Metrics \ HostMetrics : RecordsOf(m) # {}

====
